---- MODULE Spec2Model ----
(***************************************************************************)
(* A model of flary's MCP transport-and-session layer: the EdgeSSETransport *)
(* (transports/edgeSSE), the WebSocketTransport (transports/webSockets) and *)
(* the MCPDurableObject session router (fetch, setupSSETransport).          *)
(*                                                                          *)
(* A transport is a record of the object's fields together with what the    *)
(* platform keeps for it (the ReadableStream's state, the socket's          *)
(* readyState) and a log of what it has done (frames written, callbacks     *)
(* invoked).  Each method is an operator from a transport record to the     *)
(* record after the call and the call's outcome.                            *)
(***************************************************************************)
EXTENDS Integers, Sequences, FiniteSets, Bags, TLC

(***************************************************************************)
(* Program constants.                                                       *)
(***************************************************************************)
MAXIMUM_MESSAGE_SIZE == 4194304

(***************************************************************************)
(* Bounds of the model.                                                     *)
(***************************************************************************)
\* frames a transport may have written before further writing calls are cut off
MaxWire == 4
\* invocations of onclose before further ones are cut off
MaxCalls == 2
\* close() calls of a WebSocketTransport suspended at their await at one time
MaxPending == 2

(***************************************************************************)
(* JSON values a client can send, after JSON.parse.                         *)
(***************************************************************************)
ReqMsg == [jsonrpc |-> "2.0", id |-> 1, method |-> "tools/call"]
NotifMsg == [jsonrpc |-> "2.0", method |-> "notifications/initialized"]
RespMsg == [jsonrpc |-> "2.0", id |-> 1, result |-> "ok"]
NoJsonrpcMsg == [id |-> 1, method |-> "tools/call"]
PingMsg == [type |-> "ping"]
\* the notification close() tries to send: { jsonrpc: '2.0', method: 'close', params: {} }
CloseMsg == [jsonrpc |-> "2.0", method |-> "close"]

ValidMsgs == {ReqMsg, NotifMsg, RespMsg}
InvalidMsgs == {NoJsonrpcMsg, PingMsg}
JsonValues == ValidMsgs \cup InvalidMsgs

HasKey(m, k) == k \in DOMAIN m

\* JSONRPCMessageSchema.parse(m) succeeds: a request, a notification, a response or
\* an error, each a strict object carrying jsonrpc: "2.0".
SchemaAccepts(m) ==
    /\ HasKey(m, "jsonrpc")
    /\ m.jsonrpc = "2.0"
    /\ DOMAIN m \subseteq {"jsonrpc", "id", "method", "params", "result", "error"}
    /\ \/ HasKey(m, "method") /\ ~HasKey(m, "result") /\ ~HasKey(m, "error")
       \/ HasKey(m, "id") /\ ~HasKey(m, "method")
            /\ (HasKey(m, "result") /= HasKey(m, "error"))

\* typeof message === 'object' && message !== null && 'type' in message
\*   && message.type === 'ping'
IsPingFrame(m) == HasKey(m, "type") /\ m.type = "ping"

\* JSON.stringify(message), the keys in the order the message was built with
Stringify(m) ==
    CASE m = ReqMsg -> "{\"jsonrpc\":\"2.0\",\"id\":1,\"method\":\"tools/call\"}"
      [] m = NotifMsg ->
            "{\"jsonrpc\":\"2.0\",\"method\":\"notifications/initialized\"}"
      [] m = RespMsg -> "{\"jsonrpc\":\"2.0\",\"id\":1,\"result\":\"ok\"}"
      [] m = CloseMsg -> "{\"jsonrpc\":\"2.0\",\"method\":\"close\",\"params\":{}}"
      [] m = NoJsonrpcMsg -> "{\"id\":1,\"method\":\"tools/call\"}"
      [] OTHER -> "{}"

\* what a client gets from JSON.parse of a frame's payload
ParseJson(text) ==
    CASE text = "{\"jsonrpc\":\"2.0\",\"id\":1,\"method\":\"tools/call\"}" -> ReqMsg
      [] text = "{\"jsonrpc\":\"2.0\",\"method\":\"notifications/initialized\"}" ->
            NotifMsg
      [] text = "{\"jsonrpc\":\"2.0\",\"id\":1,\"result\":\"ok\"}" -> RespMsg
      [] text = "{\"jsonrpc\":\"2.0\",\"method\":\"close\",\"params\":{}}" -> CloseMsg
      [] text = "{\"id\":1,\"method\":\"tools/call\"}" -> NoJsonrpcMsg
      [] OTHER -> [none |-> TRUE]

(***************************************************************************)
(* EdgeSSETransport.                                                        *)
(*   closed, controller, keepAliveInterval, onclose/onerror/onmessage are   *)
(*   the object's fields; delayTimer is the pending setTimeout of the       *)
(*   constructor; streamState, closeRequested, locked, disturbed and queue  *)
(*   are the platform's state of this.stream; wire is every chunk enqueued  *)
(*   (of the chunks of earlier operations, the event only),                 *)
(*   oncloseCalls counts the calls of onclose, and onerrorCalls and         *)
(*   delivered log the onerror calls and the messages given to onmessage    *)
(*   by the operation in progress.                                          *)
(***************************************************************************)
NoSSE ==
    [constructed |-> FALSE, closed |-> FALSE, controller |-> FALSE,
     keepAliveInterval |-> FALSE, delayTimer |-> FALSE,
     onclose |-> FALSE, onerror |-> FALSE, onmessage |-> "unset",
     streamState |-> "readable", closeRequested |-> FALSE, locked |-> FALSE,
     disturbed |-> FALSE, queue |-> 0, wire |-> <<>>,
     oncloseCalls |-> 0, onerrorCalls |-> 0, delivered |-> <<>>]

\* ReadableStreamDefaultControllerCanCloseOrEnqueue
CanCloseOrEnqueue(t) == t.streamState = "readable" /\ ~t.closeRequested

\* controller.enqueue(chunk), where it does not throw
Enqueue(t, frame) ==
    [t EXCEPT !.wire = Append(@, frame), !.queue = @ + 1]

SSEFrame(event, data) == [event |-> event, data |-> data]

\* this.onerror, when set
SSE_onerror(t) ==
    IF t.onerror THEN [t EXCEPT !.onerrorCalls = @ + 1] ELSE t

SSE_cleanup(t) ==
    LET t1 == [t EXCEPT !.keepAliveInterval = FALSE, !.closed = TRUE]
    IN  IF t1.onclose THEN [t1 EXCEPT !.oncloseCalls = @ + 1] ELSE t1

SSE_startKeepAlive(t) == [t EXCEPT !.keepAliveInterval = TRUE]

\* A mutant of SSE_new: the session event is enqueued before the retry directive.
SSE_newSessionFirst ==
    LET t0 == [NoSSE EXCEPT !.constructed = TRUE, !.controller = TRUE]
        t1 == Enqueue(t0, SSEFrame("session", "sessionId"))
        t2 == Enqueue(t1, SSEFrame("retry", "1000"))
    IN  [t2 EXCEPT !.delayTimer = TRUE]

\* new EdgeSSETransport(messageUrl, sessionId): the stream's start() runs inside
\* the ReadableStream constructor.
SSE_new ==
    LET t0 == [NoSSE EXCEPT !.constructed = TRUE, !.controller = TRUE]
        t1 == Enqueue(t0, SSEFrame("retry", "1000"))
        t2 == Enqueue(t1, SSEFrame("session", "sessionId"))
    IN  [t2 EXCEPT !.delayTimer = TRUE]

\* the setInterval callback of startKeepAlive
\* A mutant of SSE_keepAliveTick: the callback does not look at this.closed.
SSE_keepAliveTickUnguarded(t) ==
    IF t.controller
    THEN Enqueue(t, SSEFrame("ping", "now"))
    ELSE t

\* the callback of the keep-alive interval
SSE_keepAliveTick(t) ==
    IF ~t.closed /\ t.controller
    THEN Enqueue(t, SSEFrame("ping", "now"))
    ELSE t

SSE_start(t) ==
    IF t.closed THEN [t |-> t, threw |-> "SSE transport already closed!"]
    ELSE IF ~t.controller
    THEN [t |-> t, threw |-> "Stream controller not initialized"]
    ELSE [t |-> Enqueue(Enqueue(t, SSEFrame("endpoint", "messageUrl?sessionId")),
                        SSEFrame("ready", "true")),
          threw |-> "none"]

\* A mutant of SSE_send: the frame is enqueued twice.
SSE_sendTwice(t, m) ==
    IF t.closed \/ ~t.controller THEN [t |-> t, threw |-> "Not connected"]
    ELSE IF CanCloseOrEnqueue(t)
    THEN [t |-> Enqueue(Enqueue(t, SSEFrame("message", Stringify(m))),
                        SSEFrame("message", Stringify(m))),
          threw |-> "none"]
    ELSE [t |-> SSE_onerror(t), threw |-> "TypeError"]

\* send(message): the frame is event: message with the JSON text, which holds no
\* line break, as its one data line
SSE_send(t, m) ==
    IF t.closed \/ ~t.controller THEN [t |-> t, threw |-> "Not connected"]
    ELSE IF CanCloseOrEnqueue(t)
    THEN [t |-> Enqueue(t, SSEFrame("message", Stringify(m))), threw |-> "none"]
    ELSE [t |-> SSE_onerror(t), threw |-> "TypeError"]

\* controller.close(), where it does not throw
ControllerClose(t) ==
    IF t.queue = 0
    THEN [t EXCEPT !.closeRequested = TRUE, !.streamState = "closed"]
    ELSE [t EXCEPT !.closeRequested = TRUE]

\* this.stream.cancel(): rejected on a locked stream, nothing to do on a closed
\* one, and otherwise the stream is closed, its queue dropped and the underlying
\* source's cancel() called, which is () => this.cleanup().
StreamCancel(t) ==
    IF t.locked THEN t
    ELSE IF t.streamState = "closed" THEN [t EXCEPT !.disturbed = TRUE]
    ELSE SSE_cleanup([t EXCEPT !.disturbed = TRUE, !.streamState = "closed",
                               !.queue = 0])

SSE_close(t) ==
    IF ~t.closed
    THEN LET t1 == SSE_cleanup(t)
         IN  IF t1.controller
             THEN LET t2 == SSE_send(t1, CloseMsg).t
                  IN  IF CanCloseOrEnqueue(t2)
                      THEN [t |-> StreamCancel(ControllerClose(t2)), threw |-> "none"]
                      ELSE [t |-> t2, threw |-> "TypeError"]
             ELSE [t |-> t1, threw |-> "none"]
    ELSE [t |-> t, threw |-> "none"]

\* get sseResponse: new Response(this.stream) throws on a locked or disturbed stream
SSE_sseResponse(t) ==
    LET t1 == SSE_startKeepAlive(t)
    IN  IF t1.locked \/ t1.disturbed
        THEN [t |-> t1, threw |-> "TypeError"]
        ELSE [t |-> t1, threw |-> "none"]

\* A mutant of SSE_handleMessage: the message is not validated.
SSE_handleMessageUnchecked(t, m) ==
    IF t.onmessage /= "unset"
    THEN [t |-> [t EXCEPT !.delivered = Append(@, m)], threw |-> "none"]
    ELSE [t |-> t, threw |-> "none"]

\* handleMessage(message)
SSE_handleMessage(t, m) ==
    IF ~SchemaAccepts(m)
    THEN [t |-> SSE_onerror(t), threw |-> "ZodError"]
    ELSE IF t.onmessage /= "unset"
    THEN [t |-> [t EXCEPT !.delivered = Append(@, m)], threw |-> "none"]
    ELSE [t |-> t, threw |-> "none"]

(***************************************************************************)
(* POST requests given to handlePostMessage.  contentLength is the header   *)
(* (-1: absent, the body is sent chunked); bodyLength is what the body      *)
(* really holds.  A header that is present states the body's length.        *)
(***************************************************************************)
NotJson == [raw |-> "{oops"]
IsJsonText(b) == ~HasKey(b, "raw")

ContentTypes == {"application/json", "text/plain"}
BodyLengths == {MAXIMUM_MESSAGE_SIZE, MAXIMUM_MESSAGE_SIZE + 1}
PostBodies == {ReqMsg, NoJsonrpcMsg, PingMsg, NotJson}

PostRequests ==
    {r \in [contentType : ContentTypes,
            contentLength : BodyLengths \cup {-1},
            bodyLength : BodyLengths,
            body : PostBodies] :
        r.contentLength \in {-1, r.bodyLength}}

\* contentType.includes('application/json')
ContentTypeIsJson(ct) == ct = "application/json"

\* what req.json() is to read: the request's body
Body(req) == [bodyLength |-> req.bodyLength, body |-> req.body]

\* parseInt(req.headers.get('content-length') || '0', 10)
DeclaredLength(req) == IF req.contentLength = -1 THEN 0 ELSE req.contentLength

\* new Response(text, { status })
Response(t, status, text) == [t |-> t, status |-> status, text |-> text]

\* handlePostMessage up to its await req.json(): status 0 means that the call is
\* suspended there, the body being read and parsed.
SSE_postChecks(t, req) ==
    IF t.closed \/ ~t.controller
    THEN Response(t, 500, "SSE connection not established")
    ELSE IF ~ContentTypeIsJson(req.contentType)
    THEN Response(SSE_onerror(t), 400, "Unsupported content-type")
    ELSE IF DeclaredLength(req) > MAXIMUM_MESSAGE_SIZE
    THEN Response(SSE_onerror(t), 400, "Request body too large")
    ELSE Response(t, 0, "reading body")

\* A mutant of SSE_postBody: a failure to parse or validate is answered 202.
SSE_postBodyAcceptsAll(t, req) ==
    IF ~IsJsonText(req.body) THEN Response(t, 202, "Accepted")
    ELSE Response(SSE_handleMessage(t, req.body).t, 202, "Accepted")

\* handlePostMessage from the body returned by req.json() on
SSE_postBody(t, req) ==
    IF ~IsJsonText(req.body) THEN Response(SSE_onerror(t), 400, "SyntaxError")
    ELSE LET r == SSE_handleMessage(t, req.body)
         IN  IF r.threw = "none" THEN Response(r.t, 202, "Accepted")
             ELSE Response(SSE_onerror(r.t), 400, r.threw)

(***************************************************************************)
(* WebSocketTransport.                                                      *)
(*   webSocket (set or null), closed, keepAliveInterval and the callbacks   *)
(*   are the object's fields; readyState is the platform's state of         *)
(*   this.webSocket (1 OPEN, 2 CLOSING, 3 CLOSED); stale says that a socket *)
(*   accepted by an earlier handleUpgrade still has its listeners;          *)
(*   pendingClose holds the close() calls suspended at await this.send();   *)
(*   wire, oncloseCalls, onerrorCalls and delivered are as for the SSE      *)
(*   transport.                                                             *)
(***************************************************************************)
NoWS ==
    [constructed |-> FALSE, webSocket |-> FALSE, readyState |-> 0,
     stale |-> FALSE, closed |-> FALSE, keepAliveInterval |-> FALSE,
     onclose |-> FALSE, onerror |-> FALSE, onmessage |-> "unset",
     wire |-> <<>>, oncloseCalls |-> 0, onerrorCalls |-> 0,
     delivered |-> <<>>, pendingClose |-> <<>>]

WS_new == [NoWS EXCEPT !.constructed = TRUE]

WSFrame(kind, data) == [kind |-> kind, data |-> data]

WS_onerror(t) ==
    IF t.onerror THEN [t EXCEPT !.onerrorCalls = @ + 1] ELSE t

WS_cleanup(t) ==
    LET t1 == [t EXCEPT !.keepAliveInterval = FALSE, !.closed = TRUE]
    IN  IF t1.onclose THEN [t1 EXCEPT !.oncloseCalls = @ + 1] ELSE t1

WS_startKeepAlive(t) == [t EXCEPT !.keepAliveInterval = TRUE]

WS_keepAliveTick(t) ==
    IF ~t.closed /\ t.webSocket /\ t.readyState = 1
    THEN [t EXCEPT !.wire = Append(@, WSFrame("ping", "now"))]
    ELSE t

WS_start(t) ==
    IF t.closed THEN [t |-> t, threw |-> "WebSocket transport already closed!"]
    ELSE [t |-> t, threw |-> "none"]

\* send(message); socketThrows says that this.webSocket.send(...) throws
WS_send(t, m, socketThrows) ==
    IF t.closed \/ ~t.webSocket \/ t.readyState /= 1
    THEN [t |-> t, threw |-> "Not connected"]
    ELSE IF socketThrows
    THEN [t |-> WS_onerror(t), threw |-> "Error"]
    ELSE [t |-> [t EXCEPT !.wire = Append(@, WSFrame("message", Stringify(m)))],
          threw |-> "none"]

\* A mutant of WS_handleMessage: the ping frame is not swallowed and the schema
\* is not consulted.
WS_handleMessageUnchecked(t, m) ==
    IF t.onmessage /= "unset"
    THEN [t |-> [t EXCEPT !.delivered = Append(@, m)], threw |-> "none"]
    ELSE [t |-> t, threw |-> "none"]

WS_handleMessage(t, m) ==
    IF IsPingFrame(m) THEN [t |-> t, threw |-> "none"]
    ELSE IF ~SchemaAccepts(m)
    THEN [t |-> WS_onerror(t), threw |-> "ZodError"]
    ELSE IF t.onmessage /= "unset"
    THEN [t |-> [t EXCEPT !.delivered = Append(@, m)], threw |-> "none"]
    ELSE [t |-> t, threw |-> "none"]

\* close() up to its await this.send(...): done says that the call has returned
\* without suspending.
WS_closeBegin(t, socketThrows) ==
    IF ~t.closed /\ t.webSocket
    THEN LET r == WS_send(t, CloseMsg, socketThrows)
         IN  [t |-> [r.t EXCEPT !.pendingClose =
                        Append(@, CASE r.threw = "none" -> "sent"
                                    [] r.threw = "Error" -> "threw"
                                    [] OTHER -> "failed")],
              done |-> FALSE]
    ELSE [t |-> t, done |-> TRUE]

\* this.webSocket.close()
SocketClose(t) ==
    IF t.readyState = 1 THEN [t EXCEPT !.readyState = 2] ELSE t

\* close() from its await on, for the call suspended first
WS_closeEnd(t) ==
    LET t1 == [t EXCEPT !.pendingClose = Tail(@)]
    IN  IF Head(t.pendingClose) = "sent"
        THEN WS_cleanup(SocketClose(t1))
        ELSE WS_cleanup(t1)

UpgradeHeaders == {"websocket", "WebSocket", "h2c", ""}

\* upgradeHeader && upgradeHeader.toLowerCase() === 'websocket'
IsWebSocketUpgrade(h) == h \in {"websocket", "WebSocket"}

\* A mutant of WS_handleUpgrade: accepting a socket re-opens the transport.
WS_handleUpgradeReopens(t, h) ==
    IF ~IsWebSocketUpgrade(h) THEN [t |-> t, status |-> 426]
    ELSE [t |-> WS_startKeepAlive(
                    [t EXCEPT !.stale = @ \/ (t.webSocket /\ t.readyState \in {1, 2}),
                              !.webSocket = TRUE, !.readyState = 1,
                              !.closed = FALSE]),
          status |-> 101]

\* A mutant of WS_handleUpgrade: the Upgrade header is not looked at.
WS_handleUpgradeAnyHeader(t, h) ==
    [t |-> WS_startKeepAlive(
                [t EXCEPT !.stale = @ \/ (t.webSocket /\ t.readyState \in {1, 2}),
                          !.webSocket = TRUE, !.readyState = 1]),
     status |-> 101]

WS_handleUpgrade(t, h) ==
    IF ~IsWebSocketUpgrade(h) THEN [t |-> t, status |-> 426]
    ELSE [t |-> WS_startKeepAlive(
                    [t EXCEPT !.stale = @ \/ (t.webSocket /\ t.readyState \in {1, 2}),
                              !.webSocket = TRUE, !.readyState = 1]),
          status |-> 101]

\* What a 'message' event carries: event.data
SocketData ==
    [isString : {TRUE}, length : BodyLengths, text : PostBodies]
    \cup [isString : {FALSE}, length : {MAXIMUM_MESSAGE_SIZE}, text : {NotJson}]

\* serverWs.send(JSON.stringify({ error: String(error) })) on the socket the event
\* came from, which takes it while OPEN
WS_errorFrame(t, open) ==
    IF open THEN [t EXCEPT !.wire = Append(@, WSFrame("error", "error"))] ELSE t

\* A mutant of WS_onSocketMessage: a frame of exactly MAXIMUM_MESSAGE_SIZE is
\* turned down as well.
WS_onSocketMessageStrict(t, d, open) ==
    IF ~d.isString THEN WS_errorFrame(t, open)
    ELSE IF d.length >= MAXIMUM_MESSAGE_SIZE THEN WS_errorFrame(t, open)
    ELSE IF ~IsJsonText(d.text) THEN WS_errorFrame(t, open)
    ELSE WS_handleMessage(t, d.text).t

\* the 'message' listener; open is whether the socket it came from is OPEN
WS_onSocketMessage(t, d, open) ==
    IF ~d.isString THEN WS_errorFrame(t, open)
    ELSE IF d.length > MAXIMUM_MESSAGE_SIZE THEN WS_errorFrame(t, open)
    ELSE IF ~IsJsonText(d.text) THEN WS_errorFrame(t, open)
    ELSE WS_handleMessage(t, d.text).t

(***************************************************************************)
(* URLs.  A query is the sequence of the name=value pairs of the URL's      *)
(* query string as written (raw); url.searchParams holds them decoded, and  *)
(* a URL whose searchParams were changed is written with them encoded.      *)
(***************************************************************************)
\* percent-decoding, with + for a space
Decode(raw) ==
    CASE raw = "b%20c" -> "b c"
      [] raw = "b+c" -> "b c"
      [] raw = "a%26b" -> "a&b"
      [] raw = "a%2526b" -> "a%26b"
      [] OTHER -> raw

\* the application/x-www-form-urlencoded serialisation
Encode(value) ==
    CASE value = "b c" -> "b+c"
      [] value = "a&b" -> "a%26b"
      [] OTHER -> value

\* new URL(request.url).searchParams
ParseQuery(query) ==
    [i \in DOMAIN query |-> <<query[i][1], Decode(query[i][2])>>]

\* url.toString(), of the query
SerializeQuery(params) ==
    [i \in DOMAIN params |-> <<params[i][1], Encode(params[i][2])>>]

HasParam(params, name) == \E i \in DOMAIN params : params[i][1] = name

\* searchParams.get(name), for a name that is there
GetParam(params, name) ==
    params[CHOOSE i \in DOMAIN params :
                /\ params[i][1] = name
                /\ \A j \in 1..(i - 1) : params[j][1] /= name][2]

\* the pairs of params from the i-th on whose name is not name
RECURSIVE Without(_, _, _)
Without(params, name, i) ==
    IF i > Len(params) THEN <<>>
    ELSE IF params[i][1] = name THEN Without(params, name, i + 1)
    ELSE <<params[i]>> \o Without(params, name, i + 1)

\* searchParams.set(name, value): the first pair of that name takes the value and
\* the others of that name go; without such a pair, one is appended.
SetParam(params, name, value) ==
    IF HasParam(params, name)
    THEN LET first == CHOOSE i \in DOMAIN params :
                        /\ params[i][1] = name
                        /\ \A j \in 1..(i - 1) : params[j][1] /= name
         IN  SubSeq(params, 1, first - 1) \o <<(<<name, value>>)>>
                \o Without(params, name, first + 1)
    ELSE Append(params, <<name, value>>)

(***************************************************************************)
(* MCPDurableObject.fetch: the choice of the branch, and the branches that   *)
(* answer without a transport.                                              *)
(***************************************************************************)
Methods == {"GET", "POST"}
Paths == {"/", "/sse", "/ws", "/message"}
\* an Accept header is the set of the media types it lists; {} when absent
AcceptHeaders ==
    {{}, {"text/event-stream"}, {"application/json"},
     {"application/json", "text/event-stream"}}

\* pathname.endsWith(suffix)
EndsWith(path, suffix) == path = suffix

\* acceptHeader && acceptHeader.includes(type)
Accepts(accept, type) == type \in accept

\* url.searchParams.get('sessionId'), "" when there is none
UrlSessionId(req) ==
    IF HasParam(ParseQuery(req.query), "sessionId")
    THEN GetParam(ParseQuery(req.query), "sessionId")
    ELSE ""

\* the route handler: sessionId ? idFromString(sessionId) : newUniqueId(), as
\* the string of the id of the object the request is given to
NewUniqueId == "id0"
ObjectId(req) == IF UrlSessionId(req) /= "" THEN UrlSessionId(req) ELSE NewUniqueId

\* A mutant of RedirectLocation: the redirect goes to the bare path.
RedirectLocationBare(req, id) ==
    [path |-> req.path, query |-> <<(<<"sessionId", id>>)>>]

\* redirectUrl = new URL(url.toString());
\* redirectUrl.searchParams.set('sessionId', sessionId); redirectUrl.toString()
RedirectLocation(req, id) ==
    [path |-> req.path,
     query |-> SerializeQuery(SetParam(ParseQuery(req.query), "sessionId", id))]

\* A mutant of Branch: a request that accepts an event stream is not taken for
\* a WebSocket upgrade.
BranchAcceptFirst(req) ==
    LET isWebSocketRequest == IsWebSocketUpgrade(req.upgrade)
        isSSERequest == Accepts(req.accept, "text/event-stream")
    IN  IF isWebSocketRequest /\ ~isSSERequest
            /\ (EndsWith(req.path, "/ws") \/ req.path = "/")
        THEN "websocket"
        ELSE IF req.method = "GET"
                /\ (EndsWith(req.path, "/sse") \/ isSSERequest
                        \/ (req.path = "/" /\ ~isWebSocketRequest))
        THEN (IF UrlSessionId(req) = "" THEN "redirect" ELSE "sse")
        ELSE IF req.method = "POST"
                /\ (EndsWith(req.path, "/message") \/ req.path = "/")
        THEN "post"
        ELSE "notfound"

\* A mutant of Branch: a GET without sessionId is not redirected.
BranchNoRedirect(req) ==
    LET isWebSocketRequest == IsWebSocketUpgrade(req.upgrade)
        isSSERequest == Accepts(req.accept, "text/event-stream")
    IN  IF isWebSocketRequest /\ (EndsWith(req.path, "/ws") \/ req.path = "/")
        THEN "websocket"
        ELSE IF req.method = "GET"
                /\ (EndsWith(req.path, "/sse") \/ isSSERequest
                        \/ (req.path = "/" /\ ~isWebSocketRequest))
        THEN "sse"
        ELSE IF req.method = "POST"
                /\ (EndsWith(req.path, "/message") \/ req.path = "/")
        THEN "post"
        ELSE "notfound"

\* the branch of fetch that handles the request
Branch(req) ==
    LET isWebSocketRequest == IsWebSocketUpgrade(req.upgrade)
        isSSERequest == Accepts(req.accept, "text/event-stream")
    IN  IF isWebSocketRequest /\ (EndsWith(req.path, "/ws") \/ req.path = "/")
        THEN "websocket"
        ELSE IF req.method = "GET"
                /\ (EndsWith(req.path, "/sse") \/ isSSERequest
                        \/ (req.path = "/" /\ ~isWebSocketRequest))
        THEN (IF UrlSessionId(req) = "" THEN "redirect" ELSE "sse")
        ELSE IF req.method = "POST"
                /\ (EndsWith(req.path, "/message") \/ req.path = "/")
        THEN "post"
        ELSE IF req.method = "GET" /\ req.path = "/"
                /\ Accepts(req.accept, "application/json")
        THEN "discovery"
        ELSE "notfound"

\* url.searchParams.forEach((value, key) => messageUrl.searchParams.set(key, value))
\* from the i-th parameter on
RECURSIVE CopyParams(_, _, _)
CopyParams(params, i, copied) ==
    IF i > Len(params) THEN copied
    ELSE CopyParams(params, i + 1, SetParam(copied, params[i][1], params[i][2]))

\* the query of messageUrl.toString(), for the transport that req creates
MessageUrlQuery(req) == SerializeQuery(CopyParams(ParseQuery(req.query), 1, <<>>))

\* encodeURI(text): a % is written %25; letters, digits and + ? = & stay
EncodeURI(text) ==
    CASE text = "a%26b" -> "a%2526b"
      [] OTHER -> text

\* The query of the URL of the endpoint event, as a URL parser splits it:
\* encodeURI(`${this.messageUrl}?sessionId=${this.sessionId}`).  After a
\* messageUrl that has a query already, the appended ?sessionId=... goes on
\* as the end of the value of its last parameter.
EndpointQuery(req, id) ==
    LET q == MessageUrlQuery(req)
        encoded == [i \in DOMAIN q |-> <<EncodeURI(q[i][1]), EncodeURI(q[i][2])>>]
    IN  IF q = <<>> THEN <<(<<"sessionId", EncodeURI(id)>>)>>
        ELSE [encoded EXCEPT ![Len(q)][2] = @ \o "?sessionId=" \o EncodeURI(id)]

NoLocation == [path |-> "", query |-> <<>>]

\* the answers of the branches that need no transport, by the object whose
\* this.state.id.toString() is id; of the other branches, the branch
Answered(req, id) ==
    CASE Branch(req) = "redirect" ->
            [status |-> 307, text |-> "", location |-> RedirectLocation(req, id)]
      [] Branch(req) = "discovery" ->
            [status |-> 200, text |-> id, location |-> NoLocation]
      [] Branch(req) = "notfound" ->
            [status |-> 404, text |-> "Not found", location |-> NoLocation]
      [] OTHER ->
            [status |-> 0, text |-> Branch(req), location |-> NoLocation]

\* the URL in the endpoint event of the transport that req, given to an object
\* without one, creates
EndpointUrl(req, id) == [path |-> "/message", query |-> EndpointQuery(req, id)]

(***************************************************************************)
(* State.                                                                   *)
(*   sse, ws        the transport under consideration, of either kind       *)
(*   post           the handlePostMessage call suspended at await req.json() *)
(*   last           the operation that ran last: the message it was given,   *)
(*                  its outcome, the frames it wrote, the number of onclose  *)
(*                  and of onerror calls it made, and the messages it gave   *)
(*                  to onmessage                                             *)
(*   closeReturned  a close() call on the transport has returned             *)
(*   router         the MCPDurableObject: sseTransport (0 for null, else the  *)
(*                  number of the EdgeSSETransport it refers to), the number  *)
(*                  of EdgeSSETransports constructed, the request that made   *)
(*                  the first, the number of WebSocketTransports constructed, *)
(*                  the number of the one that ws stands for (the one         *)
(*                  upgraded last), and of this.server, the shared engine,    *)
(*                  the transport it is connected to and the requests it has  *)
(*                  taken and not answered yet, each with the transport it    *)
(*                  came from and the one connected when it came; and of the  *)
(*                  lines it wrote to the console, the credentials in them    *)
(*   reqs           the fetch calls in progress (a bag), each at one of its   *)
(*                  awaits                                                    *)
(*   probe          a request, the id of the object it is routed to, the      *)
(*                  answer of fetch to it and the URL of the endpoint event   *)
(*                  it brings about; in SpecGate, the config of the MCP       *)
(*                  worker in front of the router                             *)
(***************************************************************************)
VARIABLES sse, ws, post, last, closeReturned, router, reqs, probe

vars == <<sse, ws, post, last, closeReturned, router, reqs, probe>>

\* no handlePostMessage call is suspended
NoPost == [none |-> TRUE]

\* values send() is called with: messages of the protocol engine, and a value
\* that JSONRPCMessageSchema rejects
SendMsgs == {RespMsg, NotifMsg, NoJsonrpcMsg}

Did(op, arg, res, wrote, closes, errors, delivered) ==
    [op |-> op, arg |-> arg, res |-> res, wrote |-> wrote, closes |-> closes,
     errors |-> errors, delivered |-> delivered]

\* the operation took no message
NoArg == [none |-> TRUE]

\* the transport between two operations: the operation's logs are taken off, and
\* of the frames written their kind is kept
Settled(t) ==
    [t EXCEPT !.onerrorCalls = 0, !.delivered = <<>>,
              !.wire = [i \in DOMAIN t.wire |-> [t.wire[i] EXCEPT !.data = "-"]]]

\* the constructor of MCPDurableObject
NoRouter ==
    [sseTransport |-> 0, constructed |-> 0, createdBy |-> NoArg,
     wsConstructed |-> 0, wsTransport |-> 0,
     server |-> [transport |-> <<"none", 0>>, pending |-> <<>>],
     logged |-> {}]

MaxInFlight == 2

NoAnswer == [status |-> 0, text |-> "none", location |-> NoLocation]
NoProbe == [req |-> NoArg, id |-> "", answer |-> NoAnswer, endpoint |-> NoLocation]

Constructed ==
    /\ sse = NoSSE
    /\ ws = NoWS
    /\ post = NoPost
    /\ last = Did("init", NoArg, "none", <<>>, 0, 0, <<>>)
    /\ closeReturned = FALSE
    /\ router = NoRouter
    /\ reqs = EmptyBag

Init == Constructed /\ probe = NoProbe

\* the caller's wiring: transport.onclose = ..., onerror = ..., onmessage = ...
Wired(t) == [t EXCEPT !.onclose = TRUE, !.onerror = TRUE, !.onmessage = "engine"]

SSEOk(t) ==
    /\ Len(t.wire) <= MaxWire
    /\ t.oncloseCalls <= MaxCalls

\* sse becomes t by operation op on message arg with outcome res
SSEStep(t, op, arg, res) ==
    /\ SSEOk(t)
    /\ sse' = Settled(t)
    /\ last' = Did(op, arg, res, SubSeq(t.wire, Len(sse.wire) + 1, Len(t.wire)),
                    t.oncloseCalls - sse.oncloseCalls, t.onerrorCalls, t.delivered)
    /\ UNCHANGED <<ws, router, reqs, probe>>

(***************************************************************************)
(* Operations on an EdgeSSETransport.                                       *)
(***************************************************************************)
NewSSE ==
    /\ ~sse.constructed /\ ~ws.constructed
    /\ SSEStep(Wired(SSE_new), "new", NoArg, "none")
    /\ UNCHANGED <<post, closeReturned>>

\* the constructor's setTimeout(() => this.startKeepAlive(), 100) fires
SSEDelayTimer ==
    /\ sse.constructed /\ sse.delayTimer
    /\ SSEStep([SSE_startKeepAlive(sse) EXCEPT !.delayTimer = FALSE], "timer", NoArg,
               "none")
    /\ UNCHANGED <<post, closeReturned>>

SSETick ==
    /\ sse.constructed /\ sse.keepAliveInterval
    /\ SSEStep(SSE_keepAliveTick(sse), "tick", NoArg, "none")
    /\ UNCHANGED <<post, closeReturned>>

SSEStart ==
    /\ sse.constructed
    /\ LET r == SSE_start(sse) IN SSEStep(r.t, "start", NoArg, r.threw)
    /\ UNCHANGED <<post, closeReturned>>

SSESend(m) ==
    /\ sse.constructed
    /\ LET r == SSE_send(sse, m) IN SSEStep(r.t, "send", m, r.threw)
    /\ UNCHANGED <<post, closeReturned>>

SSEClose ==
    /\ sse.constructed
    /\ LET r == SSE_close(sse) IN SSEStep(r.t, "close", NoArg, r.threw)
    /\ closeReturned' = TRUE
    /\ UNCHANGED post

SSEResponse ==
    /\ sse.constructed
    /\ LET r == SSE_sseResponse(sse) IN SSEStep(r.t, "sseResponse", NoArg, r.threw)
    /\ UNCHANGED <<post, closeReturned>>

SSEHandleMessage(m) ==
    /\ sse.constructed
    /\ LET r == SSE_handleMessage(sse, m) IN SSEStep(r.t, "handleMessage", m, r.threw)
    /\ UNCHANGED <<post, closeReturned>>

\* a response as an outcome
Answer(r) == <<r.status, r.text>>

SSEPostBegin(req) ==
    /\ sse.constructed
    /\ LET r == SSE_postChecks(sse, req)
       IN  /\ SSEStep(r.t, "post", Body(req), Answer(r))
           /\ IF r.status = 0
              THEN post = NoPost /\ post' = Body(req)
              ELSE post' = post
    /\ UNCHANGED closeReturned

SSEPostEnd ==
    /\ post /= NoPost
    /\ LET r == SSE_postBody(sse, post)
       IN  SSEStep(r.t, "postBody", post, Answer(r))
    /\ post' = NoPost
    /\ UNCHANGED closeReturned

(***************************************************************************)
(* The platform's side of the stream: the runtime takes the stream of a     *)
(* returned Response (locking it), reads chunks, and cancels when the       *)
(* client goes away.                                                        *)
(***************************************************************************)
StreamLock ==
    /\ sse.constructed /\ ~sse.locked /\ ~sse.disturbed
    /\ \/ last.op = "sseResponse" /\ last.res = "none"
       \/ last.op = "fetch" /\ last.res = <<200, "event-stream">>
    /\ SSEStep([sse EXCEPT !.locked = TRUE], "lock", NoArg, "none")
    /\ UNCHANGED <<post, closeReturned>>

\* the runtime reads the chunks that are queued; a stream whose close was
\* requested closes with the last of them
StreamRead ==
    /\ sse.constructed /\ sse.locked /\ sse.queue > 0
    /\ LET t1 == [sse EXCEPT !.queue = 0, !.disturbed = TRUE]
       IN  SSEStep(IF t1.closeRequested
                   THEN [t1 EXCEPT !.streamState = "closed"] ELSE t1,
                   "read", NoArg, "none")
    /\ UNCHANGED <<post, closeReturned>>

\* reader.cancel(): the stream is closed and the source's cancel() runs cleanup()
StreamReaderCancel ==
    /\ sse.constructed /\ sse.locked /\ sse.streamState = "readable"
    /\ SSEStep(SSE_cleanup([sse EXCEPT !.streamState = "closed", !.queue = 0,
                                       !.disturbed = TRUE]),
               "cancel", NoArg, "none")
    /\ UNCHANGED <<post, closeReturned>>

SSEActions ==
    \/ NewSSE
    \/ SSEDelayTimer
    \/ SSETick
    \/ SSEStart
    \/ \E m \in SendMsgs : SSESend(m)
    \/ SSEClose
    \/ SSEResponse
    \/ \E m \in JsonValues : SSEHandleMessage(m)
    \/ \E req \in PostRequests : SSEPostBegin(req)
    \/ SSEPostEnd
    \/ StreamLock
    \/ StreamRead
    \/ StreamReaderCancel

(***************************************************************************)
(* Operations on a WebSocketTransport.  While a close() call is suspended   *)
(* at its await, which takes a microtask only, further method calls may     *)
(* start but no socket event and no timer is dispatched.                    *)
(***************************************************************************)
\* a WebSocket has no frames to begin with and an SSE stream has two: each may
\* take MaxWire - 2 more
WSOk(t) ==
    /\ Len(t.wire) <= MaxWire - 2
    /\ t.oncloseCalls <= MaxCalls
    /\ Len(t.pendingClose) <= MaxPending

WSStep(t, op, arg, res) ==
    /\ WSOk(t)
    /\ ws' = Settled(t)
    /\ last' = Did(op, arg, res, SubSeq(t.wire, Len(ws.wire) + 1, Len(t.wire)),
                    t.oncloseCalls - ws.oncloseCalls, t.onerrorCalls, t.delivered)
    /\ UNCHANGED <<sse, post, router, reqs, probe>>

NewWS ==
    /\ ~sse.constructed /\ ~ws.constructed
    /\ WSStep(Wired(WS_new), "new", NoArg, "none")
    /\ UNCHANGED closeReturned

WSStart ==
    /\ ws.constructed
    /\ LET r == WS_start(ws) IN WSStep(r.t, "start", NoArg, r.threw)
    /\ UNCHANGED closeReturned

WSSend(m) ==
    /\ ws.constructed
    /\ \E socketThrows \in BOOLEAN :
            LET r == WS_send(ws, m, socketThrows) IN WSStep(r.t, "send", m, r.threw)
    /\ UNCHANGED closeReturned

WSCloseBegin ==
    /\ ws.constructed
    /\ \E socketThrows \in BOOLEAN :
            LET r == WS_closeBegin(ws, socketThrows)
            IN  /\ WSStep(r.t, "close", NoArg,
                          IF r.done THEN "returned" ELSE "suspended")
                /\ closeReturned' = (closeReturned \/ r.done)

WSCloseEnd ==
    /\ ws.pendingClose /= <<>>
    /\ WSStep(WS_closeEnd(ws), "close", NoArg, "returned")
    /\ closeReturned' = TRUE

WSHandleUpgrade(h) ==
    /\ ws.constructed
    /\ LET r == WS_handleUpgrade(ws, h)
       IN  WSStep(r.t, "handleUpgrade", NoArg, IF r.status = 101 THEN "101" ELSE "426")
    /\ UNCHANGED closeReturned

WSHandleMessage(m) ==
    /\ ws.constructed
    /\ LET r == WS_handleMessage(ws, m) IN WSStep(r.t, "handleMessage", m, r.threw)
    /\ UNCHANGED closeReturned

WSTick ==
    /\ ws.keepAliveInterval /\ ws.pendingClose = <<>>
    /\ WSStep(WS_keepAliveTick(ws), "tick", NoArg, "none")
    /\ UNCHANGED closeReturned

\* a 'message' event on this.webSocket, or on a socket of an earlier upgrade
WSSocketMessage(d, current) ==
    /\ ws.pendingClose = <<>>
    /\ IF current THEN ws.webSocket /\ ws.readyState \in {1, 2} ELSE ws.stale
    /\ WSStep(WS_onSocketMessage(ws, d, current => ws.readyState = 1),
              "message", d.text, "none")
    /\ UNCHANGED closeReturned

\* the peer closes: a 'close' event, whose listener is () => this.cleanup()
WSSocketClose(current) ==
    /\ ws.pendingClose = <<>>
    /\ IF current THEN ws.webSocket /\ ws.readyState \in {1, 2} ELSE ws.stale
    /\ WSStep(WS_cleanup(IF current THEN [ws EXCEPT !.readyState = 3]
                                     ELSE [ws EXCEPT !.stale = FALSE]),
              "closeEvent", NoArg, "none")
    /\ UNCHANGED closeReturned

\* an 'error' event on the socket
WSSocketError ==
    /\ ws.pendingClose = <<>>
    /\ ws.webSocket /\ ws.readyState \in {1, 2}
    /\ WSStep(WS_onerror(ws), "errorEvent", NoArg, "none")
    /\ UNCHANGED closeReturned

WSActions ==
    \/ NewWS
    \/ WSStart
    \/ \E m \in SendMsgs : WSSend(m)
    \/ WSCloseBegin
    \/ WSCloseEnd
    \/ \E h \in UpgradeHeaders : WSHandleUpgrade(h)
    \/ \E m \in JsonValues : WSHandleMessage(m)
    \/ WSTick
    \/ \E d \in SocketData, current \in BOOLEAN : WSSocketMessage(d, current)
    \/ \E current \in BOOLEAN : WSSocketClose(current)
    \/ WSSocketError

Next == SSEActions \/ WSActions

Spec == Init /\ [][Next]_vars

(***************************************************************************)
(* Claims about the two transports, checked under Spec.                     *)
(***************************************************************************)
SSEOpen(t) == t.constructed /\ ~t.closed /\ t.controller

\* the message an inbound operation was about
Inbound == {"post", "postBody", "message", "handleMessage"}
ArgMsg == IF last.op \in {"post", "postBody"} THEN last.arg.body ELSE last.arg

\* the body is not valid JSON, or is JSON without a valid jsonrpc field
MalformedBody(b) == b \in {NotJson, NoJsonrpcMsg, PingMsg}

\* C1: on either transport, every send() invoked after a close() call has
\* returned fails with 'Not connected' and writes nothing.
C1_SendAfterCloseFails ==
    (closeReturned /\ last.op = "send")
        => (last.res = "Not connected" /\ last.wrote = <<>>)

\* C2: on an opened transport (SSE: controller initialised; WebSocket: upgraded)
\* the close() calls invoke onclose once in total: a close() call invokes it once
\* if the transport is not yet closed and not at all if it is, and a close() call
\* on a closed transport changes nothing of the transport.
C2_CloseTwiceCallsOncloseOnce ==
    [][/\ (SSEClose /\ sse.controller)
            => /\ last'.closes = (IF sse.closed THEN 0 ELSE 1)
               /\ sse.closed => sse' = sse
       /\ (WSCloseBegin /\ ws.webSocket)
            => /\ last'.closes = 0
               /\ ws.closed => ws' = ws
       /\ (WSCloseEnd /\ ws.webSocket)
            => last'.closes = (IF ws.closed THEN 0 ELSE 1)]_vars

\* C3: closing is terminal: a transport that is closed stays closed through every
\* later operation, and a send() or start() on it fails.
C3_ClosedIsTerminal ==
    [][/\ sse.closed => sse'.closed
       /\ ws.closed => ws'.closed
       /\ ((sse.closed \/ ws.closed) /\ last'.op \in {"send", "start"})
            => last'.res /= "none"]_vars

\* a closed WebSocket transport was given a new socket by handleUpgrade and is
\* closed still
C3_Witness ==
    ws.closed /\ last.op = "handleUpgrade" /\ last.res = "101"

\* C4: onmessage is only ever invoked with a message that passed the JSON-RPC
\* schema: an inbound POST body or WebSocket frame that fails validation is not
\* given to it, on either transport.
C4_OnlyValidatedReachOnmessage ==
    /\ \A i \in DOMAIN last.delivered : last.delivered[i] \in ValidMsgs
    /\ (last.op \in Inbound /\ ArgMsg \notin ValidMsgs) => last.delivered = <<>>

\* a POST body without jsonrpc was refused by the schema and not delivered
C4_Witness ==
    /\ last.op = "postBody" /\ ArgMsg = NoJsonrpcMsg
    /\ last.res = <<400, "ZodError">> /\ last.delivered = <<>>

\* C5: a {type: "ping"} frame, received as a WebSocket frame or as an SSE POST
\* body, is never given to onmessage.
C5_PingNeverReachesOnmessage ==
    (last.op \in Inbound /\ ArgMsg = PingMsg) => last.delivered = <<>>

\* a ping frame arrived on an open WebSocket and was swallowed
C5_Witness ==
    /\ last.op = "message" /\ ArgMsg = PingMsg
    /\ ws.webSocket /\ ~ws.closed /\ ws.onmessage = "engine"
    /\ last.delivered = <<>> /\ last.errors = 0

\* the answers to a request turned down for its headers
HeaderRefusals ==
    {<<400, "Unsupported content-type">>, <<400, "Request body too large">>}

\* C6: a POST whose body is malformed, given to an open SSE transport, is
\* answered 400 without onmessage being invoked and without the transport's
\* closed flag, controller or keep-alive timer changing, and a following valid
\* POST is answered 202 (its body is read unless its headers are turned down for
\* the content type or the declared length, and once read it is answered 202).
C6_MalformedPostLeavesTransportOpen ==
    [][/\ (last'.op = "post" /\ SSEOpen(sse))
            => /\ MalformedBody(last'.arg.body) => last'.res[1] \in {400, 0}
               /\ last'.arg.body \in ValidMsgs
                    => (last'.res[1] = 0 \/ last'.res \in HeaderRefusals)
       /\ last'.op = "postBody"
            => /\ MalformedBody(last'.arg.body)
                    => (last'.res[1] = 400 /\ last'.delivered = <<>>)
               /\ last'.arg.body \in ValidMsgs => last'.res = <<202, "Accepted">>
       /\ last'.op \in {"post", "postBody"}
            => /\ sse'.closed = sse.closed
               /\ sse'.controller = sse.controller
               /\ sse'.keepAliveInterval = sse.keepAliveInterval]_vars

\* a body that is not JSON was answered 400 and the transport is open still
C6_Witness ==
    /\ last.op = "postBody" /\ ArgMsg = NotJson
    /\ last.res = <<400, "SyntaxError">>
    /\ SSEOpen(sse) /\ sse.keepAliveInterval

\* C7: every POST whose body exceeds 4 MiB is rejected before its body is parsed,
\* whatever its Content-Length header says: no such body is ever being read.
C7_OversizeBodyNeverParsed ==
    post /= NoPost => post.bodyLength <= MAXIMUM_MESSAGE_SIZE

(***************************************************************************)
(* fetch on the branches that answer without a transport, for every request *)
(* with up to MaxParams query parameters.                                   *)
(***************************************************************************)
MaxParams == 2

\* name=value pairs as they are written in a query string
RawPairs ==
    {<<"key", "secret">>, <<"q", "b%20c">>, <<"q", "b+c">>, <<"q", "">>,
     <<"q", "a%26b">>, <<"sessionId", "">>, <<"sessionId", "id1">>}

Queries == UNION {[1..n -> RawPairs] : n \in 0..MaxParams}

ProbeRequests ==
    [method : Methods, path : Paths, upgrade : {"", "websocket"},
     accept : AcceptHeaders, query : Queries]

InitUrl ==
    /\ Constructed
    /\ probe \in {[req |-> r, id |-> ObjectId(r), answer |-> NoAnswer,
                    endpoint |-> NoLocation] : r \in ProbeRequests}

UrlFetch ==
    /\ probe.req /= NoArg /\ probe.answer = NoAnswer
    /\ probe' = [probe EXCEPT !.answer = Answered(probe.req, probe.id),
                              !.endpoint =
                                IF Branch(probe.req) \in {"sse", "post"}
                                THEN EndpointUrl(probe.req, probe.id)
                                ELSE NoLocation]
    /\ UNCHANGED <<sse, ws, post, last, closeReturned, router, reqs>>

NextUrl == UrlFetch

SpecUrl == InitUrl /\ [][NextUrl]_vars

\* a GET that the SSE branch of fetch is for: to a path ending in /sse, or
\* accepting an event stream, or to the root, and not a WebSocket upgrade of the
\* root or of /ws
SSEPathGet(req) ==
    /\ req.method = "GET"
    /\ req.path = "/sse" \/ "text/event-stream" \in req.accept \/ req.path = "/"
    /\ ~(req.upgrade = "websocket" /\ req.path \in {"/", "/ws"})

\* C8: an SSE-path GET whose URL has no sessionId parameter is answered 307 with
\* a Location of the same path whose parameters are the request's, with their
\* names and values and in their order, followed by sessionId with the object's
\* own id as its value.
C8_RedirectKeepsQueryAddsSessionId ==
    (/\ probe.answer /= NoAnswer
     /\ SSEPathGet(probe.req)
     /\ ~HasParam(ParseQuery(probe.req.query), "sessionId"))
        => /\ probe.answer.status = 307
           /\ probe.answer.location.path = probe.req.path
           /\ ParseQuery(probe.answer.location.query)
                = Append(ParseQuery(probe.req.query), <<"sessionId", probe.id>>)

\* a GET of /sse?key=secret&q=b%20c was redirected, the space written as +
C8_Witness ==
    /\ probe.req /= NoArg /\ probe.req.method = "GET" /\ probe.req.path = "/sse"
    /\ probe.req.query = <<(<<"key", "secret">>), (<<"q", "b%20c">>)>>
    /\ probe.answer.status = 307
    /\ probe.answer.location.query
            = <<(<<"key", "secret">>), (<<"q", "b+c">>), (<<"sessionId", "id0">>)>>

(***************************************************************************)
(* The session router: fetch calls of one MCPDurableObject, interleaved at  *)
(* their awaits, with the engine's connect and the platform's side of the   *)
(* stream.  Here sse is the object this.sseTransport refers to; between two  *)
(* steps only whether its queue holds chunks is kept, and the frames a step   *)
(* wrote are in last.                                                        *)
(***************************************************************************)
MaxConnections == 1

\* this.state.id.toString() of the object modelled
SessionId == "id1"

NoBody == [none |-> TRUE]

Get(path, upgrade, accept, query) ==
    [method |-> "GET", path |-> path, upgrade |-> upgrade, accept |-> accept,
     query |-> query, contentType |-> "", contentLength |-> -1, bodyLength |-> 0,
     body |-> NoBody, authorization |-> <<>>]

PostOf(path, query, body) ==
    [method |-> "POST", path |-> path, upgrade |-> "", accept |-> {},
     query |-> query, contentType |-> "application/json", contentLength |-> -1,
     bodyLength |-> MAXIMUM_MESSAGE_SIZE, body |-> body, authorization |-> <<>>]

WithSessionId == <<(<<"sessionId", SessionId>>)>>

\* the requests given to the object
RouterRequests ==
    {Get("/sse", "", {"text/event-stream"}, WithSessionId),
     Get("/", "", {"application/json"}, <<>>),
     Get("/message", "", {}, WithSessionId),
     Get("/ws", "websocket", {}, WithSessionId),
     Get("/", "WebSocket", {"application/json", "text/event-stream"}, WithSessionId),
     PostOf("/message", WithSessionId, ReqMsg),
     PostOf("/", <<>>, NoJsonrpcMsg)}

\* A mutant of EngineConnect: the engine leaves the transport's callbacks as
\* they are.
EngineConnectKeepsCallbacks(t) == SSE_start(t)

\* server.connect(transport): the engine takes the transport's callbacks and
\* calls transport.start()
EngineConnect(t) == SSE_start(Wired(t))

\* server.connect(transport), the engine's side: this._transport = transport
Connected(rt, kind, n) == [rt EXCEPT !.server.transport = <<kind, n>>]

\* A mutant of SetupSSETransport: a transport that is closed is replaced.
SetupSSETransportRenews(rt, t, req) ==
    LET make == rt.sseTransport = 0 \/ t.closed
        t1 == IF make THEN [SSE_new EXCEPT !.onmessage = "router"]
              ELSE IF t.onmessage = "unset" THEN [t EXCEPT !.onmessage = "router"]
              ELSE t
        rt1 == IF make
               THEN [rt EXCEPT !.constructed = @ + 1,
                               !.sseTransport = rt.constructed + 1,
                               !.createdBy = req]
               ELSE rt
    IN  [router |-> Connected(rt1, "sse", rt1.sseTransport),
         connect |-> EngineConnect(t1)]

\* setupSSETransport(url) up to its await: the transport is constructed unless
\* this.sseTransport is set, its onmessage is set if missing, and
\* server.connect(this.sseTransport) is called
SetupSSETransport(rt, t, req) ==
    LET make == rt.sseTransport = 0
        t1 == IF make THEN [SSE_new EXCEPT !.onmessage = "router"]
              ELSE IF t.onmessage = "unset" THEN [t EXCEPT !.onmessage = "router"]
              ELSE t
        rt1 == IF make
               THEN [rt EXCEPT !.constructed = @ + 1,
                               !.sseTransport = rt.constructed + 1,
                               !.createdBy = req]
               ELSE rt
    IN  [router |-> Connected(rt1, "sse", rt1.sseTransport),
         connect |-> EngineConnect(t1)]

\* the transport between two steps of the router
Quiet(t) ==
    [Settled(t) EXCEPT !.wire = <<>>, !.queue = IF @ > 0 THEN 1 ELSE 0]

RouterStep(t, req, res) ==
    /\ t.oncloseCalls <= MaxCalls
    /\ sse' = Quiet(t)
    /\ last' = Did("fetch", req, res, t.wire, t.oncloseCalls - sse.oncloseCalls,
                    t.onerrorCalls, t.delivered)
    /\ UNCHANGED <<ws, post, closeReturned, probe>>

\* a fetch call at an await: where it is, its request and its wsTransport, the
\* n-th that was constructed
Call(pc, req, transport, n) ==
    [pc |-> pc, req |-> req, transport |-> transport, n |-> n]

\* a fetch call begins and comes to its first await
\* the fetch calls and the request handlers of the engine in progress
InProgress(rt, calls) == BagCardinality(calls) + Len(rt.server.pending)

Suspend(call) ==
    /\ InProgress(router, reqs) < MaxInFlight
    /\ reqs' = reqs (+) SetToBag({call})

\* the call goes on from one await to the next
Resume(call, pc) ==
    reqs' = (reqs (-) SetToBag({call})) (+) SetToBag({[call EXCEPT !.pc = pc]})

Return(call) == reqs' = reqs (-) SetToBag({call})

\* fetch on a branch that needs no transport
\* The credentials a request presents: the value of its Authorization header
\* (the words between its spaces) and the values of the key parameters of its URL.
Credentials(req) ==
    (IF req.authorization /= <<>> THEN {<<"Authorization", req.authorization>>}
     ELSE {})
    \cup {<<"url", ParseQuery(req.query)[i][2]>> :
            i \in {j \in DOMAIN req.query : ParseQuery(req.query)[j][1] = "key"}}

\* fetch's console.log of the request: all its headers and url.toString()
FetchLog(rt, req) == [rt EXCEPT !.logged = @ \cup Credentials(req)]

FetchAnswered(req) ==
    /\ Branch(req) \in {"redirect", "discovery", "notfound"}
    /\ RouterStep(sse, req, Answer(Answered(req, SessionId)))
    /\ router' = FetchLog(router, req)
    /\ UNCHANGED reqs

\* fetch on the SSE and POST branches, up to the await in setupSSETransport; what
\* connect throws there is caught at the end of fetch
FetchSetup(req) ==
    /\ Branch(req) \in {"sse", "post"}
    /\ LET s == SetupSSETransport(FetchLog(router, req), sse, req)
       IN  /\ router' = s.router
           /\ IF s.connect.threw = "none"
              THEN RouterStep(s.connect.t, req, <<0, "setup">>)
                        /\ Suspend(Call("connect", req, NoWS, 0))
              ELSE RouterStep(s.connect.t, req, <<500, s.connect.threw>>)
                        /\ UNCHANGED reqs

\* await this.server.connect(sseTransport) in fetch
FetchConnect(call) ==
    /\ call.pc = "connect"
    /\ LET c == EngineConnect(sse)
       IN  IF c.threw = "none"
           THEN RouterStep(c.t, call.req, <<0, "connected">>)
                    /\ Resume(call, "respond")
           ELSE RouterStep(c.t, call.req, <<500, "SSE connection error">>)
                    /\ Return(call)
    /\ router' = Connected(router, "sse", router.sseTransport)

\* return sseTransport.sseResponse
FetchStream(call) ==
    /\ call.pc = "respond" /\ call.req.method = "GET"
    /\ LET r == SSE_sseResponse(sse)
       IN  RouterStep(r.t, call.req,
                      IF r.threw = "none" THEN <<200, "event-stream">>
                      ELSE <<500, r.threw>>)
    /\ Return(call)
    /\ UNCHANGED router

\* return sseTransport.handlePostMessage(request), up to its await
FetchPost(call) ==
    /\ call.pc = "respond" /\ call.req.method = "POST"
    /\ LET r == SSE_postChecks(sse, call.req)
       IN  /\ RouterStep(r.t, call.req, Answer(r))
           /\ IF r.status = 0 THEN Resume(call, "reading") ELSE Return(call)
    /\ UNCHANGED router

\* the engine's onmessage: of the messages the transport numbered n of that
\* kind gave to it, the requests are taken up by their handlers
Taken(rt, kind, n, t) ==
    LET requests == SelectSeq(t.delivered,
                              LAMBDA m : HasKey(m, "id") /\ HasKey(m, "method"))
    IN  IF t.onmessage = "engine"
        THEN [rt EXCEPT !.server.pending =
                @ \o [i \in DOMAIN requests |->
                        [from |-> <<kind, n>>, via |-> rt.server.transport]]]
        ELSE rt

\* handlePostMessage from the body on
FetchPostBody(call) ==
    /\ call.pc = "reading"
    /\ LET r == SSE_postBody(sse, call.req)
       IN  /\ RouterStep(r.t, call.req, Answer(r))
           /\ router' = Taken(router, "sse", router.sseTransport, r.t)
    /\ Return(call)
    /\ InProgress(router', reqs') <= MaxInFlight

\* fetch on the WebSocket branch up to the await of setupWSTransport: the
\* transport is constructed
FetchUpgrade(req) ==
    /\ Branch(req) = "websocket"
    /\ router.wsConstructed < MaxConnections
    /\ router' = [FetchLog(router, req) EXCEPT !.wsConstructed = @ + 1]
    /\ RouterStep(sse, req, <<0, "setup">>)
    /\ Suspend(Call("upgrade", req, WS_new, router.wsConstructed + 1))

\* await this.server.connect(wsTransport); return wsTransport.handleUpgrade(request)
\* The promise of handleUpgrade is returned without an await, so what it
\* rejects with is what fetch rejects with; pairThrows says that the platform
\* fails in new WebSocketPair() or in serverWs.accept().
FetchUpgraded(call) ==
    /\ call.pc = "upgrade"
    /\ \E pairThrows \in BOOLEAN :
        LET c == WS_start(Wired(call.transport))
            r == WS_handleUpgrade(c.t, call.req.upgrade)
            thrown == pairThrows /\ r.status = 101
        IN  /\ sse' = sse
            /\ ws' = IF c.threw = "none" /\ ~thrown THEN Settled(r.t) ELSE ws
            /\ last' = Did("fetch", call.req,
                           IF c.threw /= "none"
                           THEN <<500, "WebSocket connection error">>
                           ELSE IF thrown THEN <<0, "rejected">>
                           ELSE <<r.status, "upgrade">>,
                           <<>>, 0, 0, <<>>)
    /\ router' = [Connected(router, "ws", call.n) EXCEPT !.wsTransport = call.n]
    /\ Return(call)
    /\ UNCHANGED <<post, closeReturned, probe>>

\* a 'message' event on the socket of the WebSocketTransport upgraded last
RouterSocketMessage(d) ==
    /\ router.wsTransport /= 0 /\ ws.webSocket /\ ws.readyState \in {1, 2}
    /\ LET t == WS_onSocketMessage(ws, d, ws.readyState = 1)
       IN  /\ ws' = [Settled(t) EXCEPT !.wire = <<>>]
           /\ last' = Did("message", d.text, "none", t.wire, 0, t.onerrorCalls,
                          t.delivered)
           /\ router' = Taken(router, "ws", router.wsTransport, t)
    /\ InProgress(router', reqs) <= MaxInFlight
    /\ UNCHANGED <<sse, post, closeReturned, reqs, probe>>

\* A request handler of the engine finishes and the engine sends the response
\* with protocol's transport.send: on the transport it was connected to when the
\* request came, or on the one it is connected to now, as the SDK installed has
\* it.  A WebSocketTransport other than the one upgraded last is not followed.
EngineRespond(i, captured) ==
    /\ i \in DOMAIN router.server.pending
    /\ LET p == router.server.pending[i]
           dest == IF captured THEN p.via ELSE router.server.transport
           rest == [j \in 1..(Len(router.server.pending) - 1) |->
                        router.server.pending[IF j < i THEN j ELSE j + 1]]
       IN  /\ router' = [router EXCEPT !.server.pending = rest]
           /\ IF dest = <<"sse", router.sseTransport>>
              THEN LET r == SSE_send(sse, RespMsg)
                   IN  /\ sse' = Quiet(r.t)
                       /\ ws' = ws
                       /\ last' = Did("respond", p.from, <<dest, r.threw>>, r.t.wire,
                                      0, r.t.onerrorCalls, <<>>)
              ELSE IF dest = <<"ws", router.wsTransport>>
              THEN LET r == WS_send(ws, RespMsg, FALSE)
                   IN  /\ ws' = [Settled(r.t) EXCEPT !.wire = <<>>]
                       /\ sse' = sse
                       /\ last' = Did("respond", p.from, <<dest, r.threw>>, r.t.wire,
                                      0, r.t.onerrorCalls, <<>>)
              ELSE /\ UNCHANGED <<sse, ws>>
                   /\ last' = Did("respond", p.from, <<dest, "not followed">>, <<>>,
                                  0, 0, <<>>)
    /\ UNCHANGED <<post, closeReturned, reqs, probe>>

RouterActions ==
    \/ \E req \in RouterRequests : FetchAnswered(req)
    \/ \E req \in RouterRequests : FetchSetup(req)
    \/ \E call \in BagToSet(reqs) : FetchConnect(call)
    \/ \E call \in BagToSet(reqs) : FetchStream(call)
    \/ \E call \in BagToSet(reqs) : FetchPost(call)
    \/ \E call \in BagToSet(reqs) : FetchPostBody(call)
    \/ \E req \in RouterRequests : FetchUpgrade(req)
    \/ \E call \in BagToSet(reqs) : FetchUpgraded(call)
    \/ \E d \in {x \in SocketData : x.isString /\ x.text = ReqMsg
                                        /\ x.length = MAXIMUM_MESSAGE_SIZE} :
            RouterSocketMessage(d)
    \/ \E i \in DOMAIN router.server.pending, captured \in BOOLEAN :
            EngineRespond(i, captured)

\* the requests, and the transport closed between them (by close(), or by the
\* client going away, which leaves it closed as well)
NextRouter ==
    \/ RouterActions
    \/ router.sseTransport /= 0 /\ SSEClose

SpecRouter == Init /\ [][NextRouter]_vars

\* the request carries a sessionId parameter
CarriesSessionId(req) == HasParam(ParseQuery(req.query), "sessionId")

\* C9 as stated: if the router's SSE transport exists, the request that created
\* it carried a sessionId.
C9_CreatorCarriedSessionId ==
    router.sseTransport /= 0 => CarriesSessionId(router.createdBy)

\* C9, amended: no GET that lacks a sessionId creates the router's SSE transport
\* (it is answered 307 and leaves the router without one if it had none); the
\* transport is created by a GET that carries a sessionId or by a POST, which
\* creates it with or without a sessionId.
C9_NoGetWithoutSessionIdCreates ==
    /\ router.sseTransport /= 0
        => (CarriesSessionId(router.createdBy) \/ router.createdBy.method = "POST")
    /\ (last.op = "fetch" /\ last.arg.method = "GET"
            /\ ~CarriesSessionId(last.arg) /\ SSEPathGet(last.arg))
        => last.res = <<307, "">>

\* a GET of / without sessionId was answered 307 and the router has no SSE
\* transport
C9_Witness ==
    /\ last.op = "fetch" /\ last.arg.method = "GET" /\ last.arg.path = "/"
    /\ ~CarriesSessionId(last.arg)
    /\ last.res = <<307, "">>
    /\ router.sseTransport = 0 /\ ~sse.constructed

\* C10: at most one EdgeSSETransport is ever constructed by a router, and
\* this.sseTransport, once set, keeps referring to it, through every interleaving
\* of the requests at their awaits.
C10_OneSSETransportPerRouter ==
    [][/\ router'.constructed <= 1
       /\ router.sseTransport /= 0 => router'.sseTransport = router.sseTransport
       /\ router'.sseTransport /= 0 => sse'.constructed]_vars

\* a second request went through setupSSETransport while the first was suspended
\* after it, and both have the one transport that was constructed
C10_Witness ==
    /\ \E c1, c2 \in BagToSet(reqs) :
            /\ c1.pc = "connect" /\ c1.req.method = "GET"
            /\ c2.pc = "connect" /\ c2.req.method = "POST"
    /\ router.constructed = 1 /\ router.sseTransport = 1 /\ SSEOpen(sse)

\* a request with Upgrade: websocket (in any case) to the root or to /ws
UpgradeOfRootOrWs(req) ==
    req.upgrade \in {"websocket", "WebSocket"} /\ req.path \in {"/", "/ws"}

\* C11: a request with Upgrade: websocket to / or to /ws is handled by the
\* WebSocket branch whatever it accepts: every step of its fetch call leaves the
\* router's SSE transport as it is (none created, the one there neither changed
\* nor connected to the engine), its first step constructs a WebSocketTransport
\* and its last connects that transport to the engine and answers 101 with the
\* socket accepted (where the platform makes the socket pair; where it fails to,
\* the call ends with that failure, in the WebSocket branch still).
C11_UpgradeTakesWebSocketBranch ==
    [][(last'.op = "fetch" /\ UpgradeOfRootOrWs(last'.arg))
        => /\ sse' = sse
           /\ router'.sseTransport = router.sseTransport
           /\ router'.constructed = router.constructed
           /\ router'.server.transport[1] = "sse"
                => router'.server.transport = router.server.transport
           /\ last'.res \in {<<0, "setup">>, <<101, "upgrade">>, <<0, "rejected">>}
           /\ last'.res = <<0, "setup">>
                => router'.wsConstructed = router.wsConstructed + 1
           /\ last'.res = <<101, "upgrade">>
                => /\ ws'.webSocket /\ ws'.readyState = 1
                   /\ router'.server.transport = <<"ws", router'.wsTransport>>]_vars

\* an upgrade of the root that accepts an event stream was answered 101 on a
\* router that has an SSE transport, which is open still
C11_Witness ==
    /\ last.op = "fetch" /\ last.arg.path = "/"
    /\ "text/event-stream" \in last.arg.accept
    /\ last.res = <<101, "upgrade">>
    /\ router.sseTransport = 1 /\ SSEOpen(sse)
    /\ router.wsTransport = 1 /\ ws.webSocket

\* C12: a GET of / that accepts application/json and carries no WebSocket
\* upgrade is answered with the discovery document (200), whose sessionId is the
\* object's id, and not with a redirect or an event stream.
C12_RootJsonGetsDiscovery ==
    (/\ probe.answer /= NoAnswer
     /\ probe.req.method = "GET" /\ probe.req.path = "/"
     /\ "application/json" \in probe.req.accept
     /\ probe.req.upgrade /= "websocket")
        => (probe.answer.status = 200 /\ probe.answer.text = probe.id)

\* C13: the response to a request is sent on the transport the request was
\* received on, whatever transports were connected to the engine in between.
C13_ResponseOnRequestsTransport ==
    last.op = "respond" => last.res[1] = last.arg

\* C14: once the router's SSE transport has closed, a later SSE GET or message
\* POST that carries the sessionId still gets through setupSSETransport, to be
\* answered with the stream or with 202, and is not failed.
C14_ServedAfterTransportClosed ==
    [][(sse.closed /\ router.sseTransport /= 0
        /\ \E req \in RouterRequests : CarriesSessionId(req) /\ FetchSetup(req))
            => last'.res = <<0, "setup">>]_vars

(***************************************************************************)
(* The MCP worker in front of the router: the auth middleware of its Hono  *)
(* app and the route handler, which hands the request to the               *)
(* MCPDurableObject of its sessionId.  The config is probe.auth.           *)
(***************************************************************************)

\* no callback
NoValidate == "none"

\* auth.validate callbacks: what the awaited call gives for a token
Validators == {"accepts secret", "rejects", "throws unless secret"}

Validate(v, token) ==
    CASE v = "accepts secret" -> IF token = "secret" THEN "true" ELSE "false"
      [] v = "rejects" -> "false"
      [] v = "throws unless secret" -> IF token = "secret" THEN "true" ELSE "throws"

\* config.auth: type "none" for a config without auth, token "" and validate
\* NoValidate for the options left out
NoAuth == [type |-> "none", token |-> "", validate |-> NoValidate]

FixedToken == [type |-> "bearer", token |-> "secret", validate |-> NoValidate]

BearerOnly == [type |-> "bearer", token |-> "", validate |-> NoValidate]

AuthConfigs ==
    {NoAuth, FixedToken, BearerOnly,
     [type |-> "bearer", token |-> "secret", validate |-> "rejects"]}
    \cup {[type |-> "bearer", token |-> "", validate |-> v] : v \in Validators}

\* headers of a request: the Authorization header as the words between its
\* spaces, <<>> for a request without the header
AuthorizationHeaders ==
    {<<>>, <<"Bearer", "secret">>, <<"Bearer", "wrong">>, <<"Bearer", "">>,
     <<"Basic", "secret">>}

\* authHeader.startsWith('Bearer ')
StartsWithBearer(header) == Len(header) >= 2 /\ header[1] = "Bearer"

\* c.req.query('key'), "" for undefined
QueryKey(req) ==
    IF HasParam(ParseQuery(req.query), "key")
    THEN GetParam(ParseQuery(req.query), "key")
    ELSE ""

\* the token the middleware finds, "" for none (null and '' are both falsy)
GateToken(req) ==
    IF StartsWithBearer(req.authorization) THEN req.authorization[2]
    ELSE QueryKey(req)

\* next() is called
Passed == [status |-> 0, text |-> ""]

Unauthorized(text) == [status |-> 401, text |-> text]

\* the middleware with the comparison of the token left out
GateTokenUnchecked(auth, req) ==
    IF auth.type /= "bearer" THEN Passed
    ELSE IF GateToken(req) = ""
    THEN Unauthorized("Unauthorized - Bearer token required in header or key parameter")
    ELSE Passed

\* The middleware of app.use('*'): what it answers, or Passed.  A callback that
\* throws is not caught: Hono's error handler answers 500.
Gate(auth, req) ==
    IF auth.type /= "bearer" THEN Passed
    ELSE IF GateToken(req) = ""
    THEN Unauthorized("Unauthorized - Bearer token required in header or key parameter")
    ELSE IF auth.validate /= NoValidate
    THEN CASE Validate(auth.validate, GateToken(req)) = "true" -> Passed
           [] Validate(auth.validate, GateToken(req)) = "false" ->
                    Unauthorized("Unauthorized - Invalid token")
           [] OTHER -> [status |-> 500, text |-> "Internal Server Error"]
    ELSE IF auth.token /= "" /\ GateToken(req) /= auth.token
    THEN Unauthorized("Unauthorized - Invalid token")
    ELSE Passed

\* the route handler run whatever the middleware answered
CallsNextAlways(g) == TRUE

\* return next(): the request goes on to the route handler
CallsNext(g) == g.status = 0

\* an answer of the middleware (or of Hono for it); the router answers neither
ByGate(res) == res[1] = 401 \/ res = <<500, "Internal Server Error">>

\* the query of a request with one more parameter
With(req, pair) == [req EXCEPT !.query = @ \o <<pair>>]

\* Requests to the worker.  The router modelled is the object of SessionId; a
\* request without sessionId goes to an object of its own.
AppRequests ==
    LET root == Get("/", "", {"application/json"}, <<>>)
        stream == Get("/sse", "", {"text/event-stream"}, WithSessionId)
        others == {Get("/ws", "websocket", {}, WithSessionId),
                   PostOf("/message", WithSessionId, ReqMsg)}
        pairs == {<<"key", "secret">>, <<"key", "wrong">>, <<"token", "secret">>}
    IN  {[r EXCEPT !.authorization = h] :
            r \in {root} \cup {With(root, pair) : pair \in pairs},
            h \in AuthorizationHeaders}
        \cup {[stream EXCEPT !.authorization = h] :
                h \in {<<>>, <<"Bearer", "secret">>, <<"Bearer", "wrong">>}}
        \cup others

\* app.all('/*'): the object of the sessionId, and its fetch up to its first
\* await
RouteHandler(req) ==
    /\ ObjectId(req) = SessionId \/ Branch(req) = "redirect"
    /\ \/ FetchAnswered(req)
       \/ FetchSetup(req)
       \/ FetchUpgrade(req)

\* the worker's fetch: the middleware, then the route handler
AppFetch(req) ==
    LET g == Gate(probe.auth, req)
    IN  IF CallsNext(g)
        THEN RouteHandler(req)
        ELSE /\ last' = Did("fetch", req, <<g.status, g.text>>, <<>>, 0, 0, <<>>)
             /\ UNCHANGED <<sse, ws, post, closeReturned, router, reqs, probe>>

InitGate == Constructed /\ probe \in [auth : AuthConfigs]

NextGate == \E req \in AppRequests : AppFetch(req)

SpecGate == InitGate /\ [][NextGate]_vars

C16_NoTokenNoValidateIsOpen ==
    (probe.auth.token = "" /\ probe.auth.validate = NoValidate /\ last.op = "fetch")
        => ~ByGate(last.res)

\* C17: with validate configured, a request with a token is answered 401 when
\* the awaited result is falsy or the callback throws, and is passed on only
\* when the result is truthy.
C17_ValidateDecides ==
    (probe.auth.type = "bearer" /\ probe.auth.validate /= NoValidate
     /\ last.op = "fetch" /\ GateToken(last.arg) /= "")
        => IF Validate(probe.auth.validate, GateToken(last.arg)) = "true"
           THEN ~ByGate(last.res)
           ELSE last.res[1] = 401

\* C18: a request the gate rejects with 401 is answered 401 and is never handed
\* to the router: the router, its transports and its calls in progress are as
\* they were.
C18_RejectedNeverForwarded ==
    [][\A req \in AppRequests :
            (Gate(probe.auth, req).status = 401 /\ AppFetch(req))
                => /\ last'.res[1] = 401
                   /\ UNCHANGED <<sse, ws, post, closeReturned, router, reqs>>]_vars

\* a GET of /sse was rejected with 401 while the router had its SSE transport
\* and a call in progress
C18_Witness ==
    /\ last.op = "fetch" /\ last.arg.path = "/sse" /\ last.res[1] = 401
    /\ router.sseTransport = 1 /\ SSEOpen(sse) /\ BagCardinality(reqs) = 1

\* C19: no credential a request presents (Authorization header, key parameter)
\* is written to a log.
C19_NoTokenLogged ==
    router.logged = {}

\* C20: with the fixed token configured, a request without Authorization
\* header that carries the token as ?token=secret is passed on.
C20_TokenQueryParameter ==
    (probe.auth = FixedToken /\ last.op = "fetch" /\ last.arg.authorization = <<>>
     /\ HasParam(ParseQuery(last.arg.query), "token")
     /\ GetParam(ParseQuery(last.arg.query), "token") = "secret")
        => ~ByGate(last.res)

(***************************************************************************)
(* Further claims about the two transports, checked under Spec.             *)
(***************************************************************************)
\* C21: handleUpgrade for a request whose Upgrade header is missing or is not
\* websocket answers 426 and leaves the transport as it was: no socket accepted
\* or stored, no listener added, no keep-alive timer started.
C21_BadUpgradeRefused ==
    [][\A h \in {"", "h2c"} :
            WSHandleUpgrade(h)
                => /\ last'.res = "426"
                   /\ last'.wrote = <<>> /\ last'.closes = 0 /\ last'.errors = 0
                   /\ ws' = ws]_vars

\* an upgrade was refused on a transport that had no socket, and it has none
C21_Witness ==
    /\ last.op = "handleUpgrade" /\ last.res = "426"
    /\ ws.constructed /\ ~ws.webSocket /\ ~ws.keepAliveInterval /\ ~ws.closed

\* a frame that carries a message
IsMessageFrame(f) ==
    \/ HasKey(f, "event") /\ f.event = "message"
    \/ HasKey(f, "kind") /\ f.kind = "message"

\* the frames of before are the first frames of after
KeepsWire(before, after) ==
    Len(before) <= Len(after) /\ SubSeq(after, 1, Len(before)) = before

\* C22: on a transport the message frames on the wire are the messages of the
\* successful send() calls, in their order: a successful send(m) appends one
\* frame, whose payload parses to m; a send() that fails appends none; no other
\* operation writes a message frame (close() sends its close notification with
\* send()); and no operation removes or moves a frame written before.
C22_SendWritesOneFrameInOrder ==
    [][/\ (last'.op = "send" /\ last'.res = "none")
            => /\ Len(last'.wrote) = 1
               /\ IsMessageFrame(last'.wrote[1])
               /\ ParseJson(last'.wrote[1].data) = last'.arg
               /\ Len(sse'.wire) + Len(ws'.wire) = Len(sse.wire) + Len(ws.wire) + 1
       /\ (last'.op = "send" /\ last'.res /= "none") => last'.wrote = <<>>
       /\ last'.op = "close"
            => \A i \in DOMAIN last'.wrote :
                    IsMessageFrame(last'.wrote[i])
                        => ParseJson(last'.wrote[i].data) = CloseMsg
       /\ last'.op \notin {"send", "close"}
            => \A i \in DOMAIN last'.wrote : ~IsMessageFrame(last'.wrote[i])
       /\ KeepsWire(sse.wire, sse'.wire)
       /\ KeepsWire(ws.wire, ws'.wire)
       /\ Len(last'.wrote) = Len(sse'.wire) - Len(sse.wire)
                              + Len(ws'.wire) - Len(ws.wire)]_vars

\* a second message was sent on an open SSE transport and its frame follows the
\* first one's
C22_Witness ==
    /\ last.op = "send" /\ last.arg = NotifMsg /\ last.res = "none"
    /\ SSEOpen(sse) /\ Len(sse.wire) = 4
    /\ sse.wire[3].event = "message" /\ sse.wire[4].event = "message"

\* C23: when a request POSTed to the session's SSE transport fails validation,
\* the call that answers 400 also writes an error response, as a message frame,
\* on the SSE stream.
C23_InvalidPostGetsErrorInBand ==
    (last.op = "fetch" /\ last.arg.method = "POST" /\ last.res[1] = 400)
        => \E i \in DOMAIN last.wrote :
                /\ IsMessageFrame(last.wrote[i])
                /\ HasKey(ParseJson(last.wrote[i].data), "error")

\* C24: whatever the order of close() calls and of the platform's close events
\* (the 'close' event of the server socket, the cancel of the SSE stream), a
\* transport invokes onclose at most once.
C24_OncloseAtMostOnce ==
    sse.oncloseCalls <= 1 /\ ws.oncloseCalls <= 1

\* C25: the first frame of an SSE stream is the retry directive and the second
\* the session event with the transport's sessionId, written by the constructor;
\* every endpoint, ready, message and ping frame comes after the two.
C25_RetryThenSessionFirst ==
    /\ sse.constructed
        => /\ Len(sse.wire) >= 2
           /\ sse.wire[1].event = "retry" /\ sse.wire[2].event = "session"
           /\ \A i \in 3..Len(sse.wire) :
                    sse.wire[i].event \in {"endpoint", "ready", "message", "ping"}
    /\ (last.op = "new" /\ sse.constructed)
        => last.wrote = <<SSEFrame("retry", "1000"), SSEFrame("session", "sessionId")>>

\* a keep-alive tick came before the first send(): the ping and the message
\* follow the two frames of the constructor
C25_Witness ==
    /\ SSEOpen(sse) /\ Len(sse.wire) = 4
    /\ sse.wire[3].event = "ping" /\ sse.wire[4].event = "message"

\* the frames of the events named event
EventFrames(frames, event) ==
    {i \in DOMAIN frames : HasKey(frames[i], "event") /\ frames[i].event = event}

\* C26: start() runs once on the router's SSE transport, so that the endpoint
\* event and the ready event are each written once: by the step that constructs
\* the transport, once, and by no step after it.
C26_StartedOnce ==
    [][/\ Cardinality(EventFrames(last'.wrote, "endpoint")) <= 1
       /\ Cardinality(EventFrames(last'.wrote, "ready")) <= 1
       /\ router.sseTransport /= 0
            => /\ EventFrames(last'.wrote, "endpoint") = {}
               /\ EventFrames(last'.wrote, "ready") = {}]_vars

\* the values that the parameters named name have in params
ValuesOf(params, name) == {params[i][2] : i \in {j \in DOMAIN params : params[j][1] = name}}

\* C27: the URL of the endpoint event, parsed as a URL, has the transport's
\* session id as its sessionId parameter and every parameter of the request
\* that created the transport, with the value it had there.
C27_EndpointUrlWellFormed ==
    (probe.answer /= NoAnswer /\ Branch(probe.req) \in {"sse", "post"})
        => LET q == ParseQuery(probe.endpoint.query)
               asked == ParseQuery(probe.req.query)
           IN  /\ HasParam(q, "sessionId") /\ GetParam(q, "sessionId") = probe.id
               /\ \A i \in DOMAIN asked :
                    /\ HasParam(q, asked[i][1])
                    /\ GetParam(q, asked[i][1]) \in ValuesOf(asked, asked[i][1])

WSOpen(t) == t.constructed /\ ~t.closed /\ t.webSocket /\ t.readyState = 1

\* C28: a keep-alive tick writes exactly one ping frame with the current time
\* if the transport is open at the tick (SSE: not closed and a controller;
\* WebSocket: not closed and the socket OPEN), and writes nothing otherwise.
C28_TickPingsIffOpen ==
    [][/\ SSETick =>
            /\ SSEOpen(sse) => /\ CanCloseOrEnqueue(sse)
                               /\ last'.wrote = <<SSEFrame("ping", "now")>>
                               /\ Len(sse'.wire) = Len(sse.wire) + 1
            /\ ~SSEOpen(sse) => (last'.wrote = <<>> /\ sse'.wire = sse.wire)
            /\ last'.res = "none" /\ last'.closes = 0 /\ last'.errors = 0
       /\ WSTick =>
            /\ WSOpen(ws) => /\ last'.wrote = <<WSFrame("ping", "now")>>
                             /\ Len(ws'.wire) = Len(ws.wire) + 1
            /\ ~WSOpen(ws) => (last'.wrote = <<>> /\ ws'.wire = ws.wire)
            /\ last'.res = "none" /\ last'.closes = 0 /\ last'.errors = 0]_vars

C28_Witness ==
    /\ last.op = "tick" /\ last.wrote = <<SSEFrame("ping", "now")>>
    /\ SSEOpen(sse) /\ sse.keepAliveInterval /\ Len(sse.wire) = 4

\* C29: constructing an SSE transport does not arm its keep-alive interval;
\* the interval becomes armed only by a request of the streaming response
\* (sseResponse), and every such request arms it.
C29_ArmedBySseResponseOnly ==
    [][/\ NewSSE => ~sse'.keepAliveInterval
       /\ SSEResponse => sse'.keepAliveInterval
       /\ (sse'.keepAliveInterval /\ ~sse.keepAliveInterval)
            => last'.op = "sseResponse"]_vars

\* C30: a closed SSE transport has no keep-alive interval armed.
C30_ClosedHasNoKeepAlive == sse.closed => ~sse.keepAliveInterval

(***************************************************************************)
(* Validation, closing and inbound frames.                                 *)
(***************************************************************************)
\* C31: send(m) with an m that JSONRPCMessageSchema rejects writes no frame,
\* on either transport.
C31_SendValidatesFirst ==
    (last.op = "send" /\ ~SchemaAccepts(last.arg)) => last.wrote = <<>>

\* frames carries the notification of close()
HasCloseNotification(frames) ==
    \E i \in DOMAIN frames :
        IsMessageFrame(frames[i]) /\ ParseJson(frames[i].data) = CloseMsg

\* C32: close() on an open transport whose channel takes writes puts the close
\* notification on the wire, before the stream or the socket is closed, on
\* the SSE and on the WebSocket transport.
C32_CloseNotifiesFirst ==
    [][/\ (SSEClose /\ SSEOpen(sse) /\ CanCloseOrEnqueue(sse))
            => HasCloseNotification(last'.wrote)
       /\ (WSCloseBegin /\ WSOpen(ws) /\ ws'.pendingClose[Len(ws'.pendingClose)] /= "threw")
            => (HasCloseNotification(last'.wrote) /\ ws'.readyState = 1)]_vars

\* C33: close() of an upgraded, not yet closed WebSocket transport closes the
\* socket and then runs cleanup, also when the close notification could not be
\* sent: no socket is left OPEN by a close() that returned.
C33_CloseAlwaysClosesSocket ==
    [][(WSCloseEnd /\ ~ws.closed)
            => /\ ws'.closed /\ ~ws'.keepAliveInterval /\ last'.closes = 1
               /\ ws'.readyState /= 1]_vars

\* C34: a WebSocket frame that is not a string, or is longer than
\* MAXIMUM_MESSAGE_SIZE, is answered with one error frame on the socket it came
\* from (where that socket is OPEN), is not given to onmessage and leaves the
\* transport as it was: closed flag, socket state and keep-alive unchanged.  A
\* string frame of exactly MAXIMUM_MESSAGE_SIZE holding JSON is not turned
\* down: it gets no error frame and, when valid, reaches onmessage.
C34_BadFrameGetsErrorFrame ==
    [][last'.op = "message" => \A d \in SocketData, current \in BOOLEAN :
        WSSocketMessage(d, current) =>
            /\ (~d.isString \/ d.length > MAXIMUM_MESSAGE_SIZE)
                => /\ last'.delivered = <<>>
                   /\ last'.wrote =
                        (IF current => ws.readyState = 1
                         THEN <<WSFrame("error", "error")>> ELSE <<>>)
                   /\ last'.closes = 0 /\ last'.errors = 0
                   /\ [ws' EXCEPT !.wire = <<>>] = [ws EXCEPT !.wire = <<>>]
                   /\ KeepsWire(ws.wire, ws'.wire)
                   /\ Len(ws'.wire) = Len(ws.wire) + Len(last'.wrote)
            /\ (d.isString /\ d.length = MAXIMUM_MESSAGE_SIZE /\ IsJsonText(d.text))
                => /\ last'.wrote = <<>>
                   /\ (d.text \in ValidMsgs /\ ws.onmessage /= "unset")
                        => last'.delivered = <<d.text>>]_vars

\* an oversize frame holding a valid request was answered with an error frame on
\* an open transport
C34_Witness ==
    /\ last.op = "message" /\ last.arg = ReqMsg
    /\ last.wrote = <<WSFrame("error", "error")>> /\ last.delivered = <<>>
    /\ WSOpen(ws) /\ ws.keepAliveInterval

\* C38: a POST that handlePostMessage answers 400 is reported to the
\* transport's onerror callback exactly once.
C38_RejectedPostReportedOnce ==
    (last.op \in {"post", "postBody"} /\ last.res[1] = 400 /\ sse.onerror)
        => last.errors = 1

\* C39: a WebSocket message event, or an SSE message POST, that arrives at a
\* closed transport delivers nothing to onmessage.
C39_NoDeliveryAfterClose ==
    /\ (last.op = "message" /\ ws.closed) => last.delivered = <<>>
    /\ (last.op = "post" /\ sse.closed) => last.delivered = <<>>

(***************************************************************************)
(* The registry of WebSocket transports of an MCPDurableObject, under       *)
(* SpecRegistry.  probe holds now, the value of Date.now(); wsTransports,   *)
(* the Map as the set of its <<key, value>> pairs, a transport being the    *)
(* number it was constructed as; and made, the number of transports         *)
(* constructed.  The registration is done before the first await of fetch,  *)
(* and nothing after it touches the Map, so a fetch call is one step here.  *)
(***************************************************************************)
MaxClock == 3
MaxUpgrades == 3

\* this.state.id.toString() + '-' + Date.now().toString()
ConnectionId(id, now) == [sessionBase |-> id, dash |-> "-", timestamp |-> now]

\* this.wsTransports.set(connectionId, transport)
MapSet(map, key, value) == {p \in map : p[1] /= key} \cup {<<key, value>>}

\* setupWSTransport(url, connectionId), the transport being the n-th
SetupWSTransport(wsTransports, connectionId, n) == MapSet(wsTransports, connectionId, n)

\* fetch on the WebSocket branch
RegistryFetch(req) ==
    /\ Branch(req) = "websocket"
    /\ probe.made < MaxUpgrades
    /\ LET connectionId == ConnectionId(SessionId, probe.now)
           n == probe.made + 1
           c == WS_start(Wired(WS_new))
           r == WS_handleUpgrade(c.t, req.upgrade)
       IN  /\ probe' = [probe EXCEPT
                            !.wsTransports = SetupWSTransport(@, connectionId, n),
                            !.made = n]
           /\ last' = Did("fetch", req, <<r.status, "upgrade">>, <<>>, 0, 0, <<>>)
    /\ UNCHANGED <<sse, ws, post, closeReturned, router, reqs>>

\* the clock goes on by a millisecond
ClockAdvance ==
    /\ probe.now < MaxClock
    /\ probe' = [probe EXCEPT !.now = @ + 1]
    /\ UNCHANGED <<sse, ws, post, last, closeReturned, router, reqs>>

InitRegistry == Constructed /\ probe = [now |-> 0, wsTransports |-> {}, made |-> 0]

NextRegistry ==
    \/ \E req \in RouterRequests : RegistryFetch(req)
    \/ ClockAdvance

SpecRegistry == InitRegistry /\ [][NextRegistry]_vars

\* C35: every WebSocket connection of a session has its own transport
\* registered under a connection id that no other connection of the session
\* has: no registration replaces another, upgrades at the same clock value
\* included.
C35_RegistrationsDistinct ==
    /\ Cardinality(probe.wsTransports) = probe.made
    /\ \A n \in 1..probe.made : \E p \in probe.wsTransports : p[2] = n

(***************************************************************************)
(* Further claims about the MCPDurableObject, checked under SpecRouter.     *)
(***************************************************************************)
\* C36: a POST to a path ending in /message or to /, with a JSON content type
\* and a schema-valid JSON-RPC message, on a session whose SSE transport is
\* open or not yet made, is answered 202, and the message is given once to
\* the engine's onmessage, which is the transport's onmessage then; no other
\* step of the call delivers anything.
C36_ValidPostDeliveredOnce ==
    (/\ last.op = "fetch" /\ Branch(last.arg) = "post"
     /\ ContentTypeIsJson(last.arg.contentType)
     /\ DeclaredLength(last.arg) <= MAXIMUM_MESSAGE_SIZE
     /\ IsJsonText(last.arg.body) /\ SchemaAccepts(last.arg.body)
     /\ ~sse.closed)
        => /\ last.res \in {<<0, "setup">>, <<0, "connected">>, <<0, "reading body">>,
                            <<202, "Accepted">>}
           /\ last.res = <<202, "Accepted">>
                => (last.delivered = <<last.arg.body>> /\ sse.onmessage = "engine")
           /\ last.res /= <<202, "Accepted">> => last.delivered = <<>>

\* a POST that made the transport was answered 202 and its request delivered
C36_Witness ==
    /\ last.op = "fetch" /\ last.arg = PostOf("/message", WithSessionId, ReqMsg)
    /\ last.res = <<202, "Accepted">> /\ last.delivered = <<ReqMsg>>
    /\ router.createdBy = last.arg /\ ~sse.closed /\ sse.onmessage = "engine"

\* C37: whatever fails while fetch handles a request (the engine's connect,
\* the setup of a transport, handleUpgrade, handlePostMessage), fetch answers
\* with a Response, 500 for what it caught: no fetch call rejects.
C37_FetchNeverRejects ==
    last.op = "fetch" => last.res /= <<0, "rejected">>

====
